---- MODULE Spec2Model ----
(***************************************************************************)
(* Model of panoptica's evaluator orchestrator (src/panoptica/evaluator.py) *)
(*                                                                         *)
(* One Panoptic_Evaluator object is constructed (Init) and then used for a *)
(* series of calls.  A call enters either through the method               *)
(* Panoptic_Evaluator.evaluate or directly through the module function     *)
(* panoptic_evaluate, and is followed statement by statement (pc is the    *)
(* line the call is at).  The collaborators whose code lives in other      *)
(* modules (approximator, matcher, evaluate_matched_instance, the pair     *)
(* types) are modelled at their interface.                                 *)
(***************************************************************************)
EXTENDS Integers, Sequences, FiniteSets, TLC

\* ---------------------------------------------------------------- bounds
\* largest instance count of a pair
MaxInst == 2
\* number of distinct iou_threshold settings (percent values 50, 75, ...)
NumThresholds == 2
\* number of calls followed on one evaluator
MaxCalls == 2

\* ---------------------------------------------------------------- values
Min(a, b) == IF a < b THEN a ELSE b

\* the types evaluator.py imports and dispatches on
PairTypes == {"SemanticPair", "UnmatchedInstancePair", "MatchedInstancePair"}
StageTypes == PairTypes \cup {"PanopticaResult"}

\* Python's None
None == [type |-> "None"]

\* iou_threshold values, in percent (0.5 is the constructor's default)
Thresholds == {50 + 25 * (i - 1) : i \in 1..NumThresholds}

\* SemanticPair(b, a): the two semantic masks are not inspected by evaluator.py
SemanticPair(oid) == [type |-> "SemanticPair", oid |-> oid]

\* UnmatchedInstancePair: evaluator.py reads only the two instance counts
UnmatchedInstancePair(nref, npred, oid) ==
    [type |-> "UnmatchedInstancePair", oid |-> oid,
     n_reference_instance |-> nref, n_prediction_instance |-> npred]

\* MatchedInstancePair: the counts plus the accepted (reference id, prediction id) pairs
MatchedInstancePair(nref, npred, matched, oid) ==
    [type |-> "MatchedInstancePair", oid |-> oid,
     n_reference_instance |-> nref, n_prediction_instance |-> npred,
     matched_instances |-> matched]

\* PanopticaResult(num_ref_instances=, num_pred_instances=, tp=, dice_list=, iou_list=)
PanopticaResult(num_ref, num_pred, tp, dice_list, iou_list, oid) ==
    [type |-> "PanopticaResult", oid |-> oid,
     num_ref_instances |-> num_ref, num_pred_instances |-> num_pred,
     tp |-> tp, dice_list |-> dice_list, iou_list |-> iou_list]

\* isinstance(processing_pair, T): the four stage classes are unrelated siblings
IsInstance(pp, T) == pp.type = T

\* a check that accepts every stage type
TypeMatchesAnyStage(pp, expected) == pp.type \in StageTypes

\* type(processing_pair) == self.__expected_input
TypeMatches(pp, expected) == pp.type = expected

\* processing_pair.copy(): a new object with the same content
Copy(pp, oid) == [pp EXCEPT !.oid = oid]

\* equality of content, whatever the object
SameContent(a, b) == Copy(a, 0) = Copy(b, 0)

\* symbolic overlap scores of one accepted pair (computed from the masks)
IoU(pair) == [metric |-> "IoU", ref |-> pair[1], pred |-> pair[2]]
Dice(pair) == [metric |-> "Dice", ref |-> pair[1], pred |-> pair[2]]

\* evaluate_matched_instance(processing_pair, iou_threshold=iou_threshold)
evaluate_matched_instance(pp, iou_threshold, oid) ==
    PanopticaResult(pp.n_reference_instance, pp.n_prediction_instance,
                    Len(pp.matched_instances),
                    [i \in 1..Len(pp.matched_instances) |-> Dice(pp.matched_instances[i])],
                    [i \in 1..Len(pp.matched_instances) |-> IoU(pp.matched_instances[i])],
                    oid)

\* one-to-one lists of accepted pairs over ids 1..nref and 1..npred
Matchings(nref, npred) ==
    {s \in UNION {[1..k -> (1..nref) \X (1..npred)] : k \in 0..Min(nref, npred)} :
        \A i, j \in DOMAIN s : i # j => s[i][1] # s[j][1] /\ s[i][2] # s[j][2]}

\* the pairs and results a caller or a collaborator can hand over
SemanticPairs(oid) == {SemanticPair(oid)}
UnmatchedPairs(oid) ==
    {UnmatchedInstancePair(r, p, oid) : r \in 0..MaxInst, p \in 0..MaxInst}
MatchedPairs(oid) ==
    UNION {{MatchedInstancePair(rp[1], rp[2], m, oid) : m \in Matchings(rp[1], rp[2])} :
              rp \in (0..MaxInst) \X (0..MaxInst)}
Results(oid) ==
    {evaluate_matched_instance(m, 50, oid) : m \in MatchedPairs(oid)}
Pairs(oid) == SemanticPairs(oid) \cup UnmatchedPairs(oid) \cup MatchedPairs(oid)
Inputs(oid) == Pairs(oid) \cup Results(oid)

\* ---------------------------------------------------------------- zero-instance handler
\* a handler that never short-circuits
_handle_zero_instances_cases_never(pp, oid) == pp

\* a handler that is off by one on the prediction count
_handle_zero_instances_cases_offbyone(pp, oid) ==
    IF pp.n_prediction_instance <= 1 \/ pp.n_reference_instance = 0
    THEN PanopticaResult(0, 0, 0, <<>>, <<>>, oid)
    ELSE pp

\* a handler that reports the prediction count as true positives
_handle_zero_instances_cases_tp(pp, oid) ==
    IF pp.n_prediction_instance = 0 \/ pp.n_reference_instance = 0
    THEN PanopticaResult(0, 0, pp.n_prediction_instance, <<>>, <<>>, oid)
    ELSE pp

\* a handler that short-circuits only when both counts are zero
_handle_zero_instances_cases_bothonly(pp, oid) ==
    IF pp.n_prediction_instance = 0 /\ pp.n_reference_instance = 0
    THEN PanopticaResult(0, 0, 0, <<>>, <<>>, oid)
    ELSE pp

\* _handle_zero_instances_cases(processing_pair): oid is the object a new result would be
_handle_zero_instances_cases(pp, oid) ==
    LET n_reference_instance == pp.n_reference_instance
        n_prediction_instance == pp.n_prediction_instance
    IN  IF n_prediction_instance = 0 \/ n_reference_instance = 0
        THEN PanopticaResult(0, 0, 0, <<>>, <<>>, oid)
        ELSE IF n_reference_instance = 0
        THEN PanopticaResult(0, n_prediction_instance, 0, <<>>, <<>>, oid)
        ELSE IF n_prediction_instance = 0
        THEN PanopticaResult(n_reference_instance, 0, 0, <<>>, <<>>, oid)
        ELSE pp

\* ---------------------------------------------------------------- state
VARIABLES
    expected_input,         \* self.__expected_input
    instance_approximator,  \* self.__instance_approximator: None or an approximator
    instance_matcher,       \* self.__instance_matcher: None or a matcher
    iou_threshold,          \* self.__iou_threshold
    pc,                     \* where the current call is
    entry,                  \* the function the caller called
    input,                  \* the caller's argument
    processing_pair,        \* local variable processing_pair
    debug_data,             \* local variable debug_data
    invoked,                \* the calls made so far by the current call
    outcome,                \* what the call gave back to the caller
    next_oid,               \* identity of the next object allocated
    n_calls,                \* the calls begun on this evaluator so far
    calls,                  \* two calls in progress at once: the state of each
    matching                \* a run of the matcher: its argument and its result

vars == <<expected_input, instance_approximator, instance_matcher, iou_threshold,
          pc, entry, input, processing_pair, debug_data, invoked, outcome, next_oid,
          n_calls, calls, matching>>

\* the state of the runs that are followed apart from the evaluator's calls
aux == <<calls, matching>>

config == <<expected_input, instance_approximator, instance_matcher, iou_threshold>>

\* a configured collaborator object
Approximator == [type |-> "InstanceApproximator"]
Matcher == [type |-> "InstanceMatchingAlgorithm"]

NoOutcome == [kind |-> "none"]
Returned(result, debug) == [kind |-> "return", result |-> result, debug_data |-> debug]
Raised(error) == [kind |-> "raise", error |-> error]

\* one call made by panoptic_evaluate: callee, positional argument, keyword arguments, value returned
Invocation(name, arg, kwargs, out) ==
    [name |-> name, arg |-> arg, kwargs |-> kwargs, out |-> out]

\* no keyword arguments
NoKwargs == <<>>

\* no concurrent calls are followed
NoCalls == <<>>

\* no run of the matcher is followed
NoMatching == [pc |-> "none"]

\* Panoptic_Evaluator.__init__
Init ==
    /\ expected_input \in StageTypes
    /\ instance_approximator \in {None, Approximator}
    /\ instance_matcher \in {None, Matcher}
    /\ iou_threshold \in Thresholds
    /\ pc = "idle"
    /\ entry = "none"
    /\ input = None
    /\ processing_pair = None
    /\ debug_data = <<>>
    /\ invoked = <<>>
    /\ outcome = NoOutcome
    /\ next_oid = 1
    /\ n_calls = 0
    /\ calls = NoCalls
    /\ matching = NoMatching

\* the caller calls evaluator.evaluate(processing_pair)
CallEvaluate ==
    /\ pc = "idle"
    /\ n_calls < MaxCalls
    /\ n_calls' = n_calls + 1
    /\ \E pp \in Inputs(1) :
        /\ input' = pp
        /\ processing_pair' = pp
    /\ entry' = "Panoptic_Evaluator.evaluate"
    /\ pc' = "L28"
    /\ next_oid' = 2
    /\ UNCHANGED <<aux, config, debug_data, invoked, outcome>>

\* the caller calls panoptic_evaluate(processing_pair, ...) with the same collaborators
CallPanopticEvaluate ==
    /\ pc = "idle"
    /\ n_calls < MaxCalls
    /\ n_calls' = n_calls + 1
    /\ \E pp \in Inputs(1) :
        /\ input' = pp
        /\ processing_pair' = pp
    /\ entry' = "panoptic_evaluate"
    /\ pc' = "L45"
    /\ next_oid' = 2
    /\ UNCHANGED <<aux, config, debug_data, invoked, outcome>>

\* the call raises: nothing is returned
Raise(error) ==
    /\ pc' = "done"
    /\ outcome' = Raised(error)

\* the call returns (processing_pair, debug_data)
Return(result, debug) ==
    /\ pc' = "done"
    /\ outcome' = Returned(result, debug)

\* line 28 written as an assignment to the expected type
AssertExpectedInputAssigns ==
    /\ pc = "L28"
    /\ expected_input' = processing_pair.type
    /\ pc' = "L45"
    /\ UNCHANGED <<aux, n_calls, instance_approximator, instance_matcher, iou_threshold, outcome,
                   entry, input, processing_pair, debug_data, invoked, next_oid>>

\* evaluate, line 28: assert type(processing_pair) == self.__expected_input
AssertExpectedInput ==
    /\ pc = "L28"
    /\ IF TypeMatches(processing_pair, expected_input)
       THEN pc' = "L45" /\ UNCHANGED outcome
       ELSE Raise("TypeMismatch")
    /\ UNCHANGED <<aux, n_calls, config, entry, input, processing_pair, debug_data, invoked, next_oid>>

\* lines 45-48 returning a copy of the result
PassThroughCopy ==
    /\ pc = "L45"
    /\ debug_data' = <<>>
    /\ IF IsInstance(processing_pair, "PanopticaResult")
       THEN Return(Copy(processing_pair, next_oid), debug_data')
       ELSE pc' = "L50" /\ UNCHANGED outcome
    /\ UNCHANGED <<aux, n_calls, config, entry, input, processing_pair, invoked, next_oid>>

\* panoptic_evaluate, lines 45-48: debug_data = {}; a PanopticaResult is returned as is
PassThrough ==
    /\ pc = "L45"
    /\ debug_data' = <<>>
    /\ IF IsInstance(processing_pair, "PanopticaResult")
       THEN Return(processing_pair, debug_data')
       ELSE pc' = "L50" /\ UNCHANGED outcome
    /\ UNCHANGED <<aux, n_calls, config, entry, input, processing_pair, invoked, next_oid>>

\* line 53: debug_data["UnmatchedInstanceMap"]
UnmatchedKey == "UnmatchedInstanceMap"

\* the matched pair stored under the key of the unmatched pair
MatchedKeyCopyPaste == "UnmatchedInstanceMap"

\* line 62: debug_data["MatchedInstanceMap"]
MatchedKey == "MatchedInstanceMap"

\* line 59, taking every pair that is not yet a result
NeedsMatchingLoose(pp) == ~IsInstance(pp, "PanopticaResult")

\* line 59: isinstance(processing_pair, UnmatchedInstancePair)
NeedsMatching(pp) == IsInstance(pp, "UnmatchedInstancePair")

\* line 60, asserting the wrong collaborator
MatcherPresentWrongField == instance_approximator # None

\* line 51, checked for both collaborators at once
ApproximatorPresentEager == instance_approximator # None /\ instance_matcher # None

\* line 51: assert instance_approximator is not None
ApproximatorPresent == instance_approximator # None

\* line 60: assert instance_matcher is not None
MatcherPresent == instance_matcher # None

\* lines 50-53: first phase, instance approximation
PhaseApproximate ==
    /\ pc = "L50"
    /\ IF IsInstance(processing_pair, "SemanticPair")
       THEN IF ApproximatorPresent
            THEN \E out \in Pairs(next_oid) :
                    /\ processing_pair' = out
                    /\ invoked' = Append(invoked,
                          Invocation("approximate_instances", processing_pair, NoKwargs, out))
                    /\ debug_data' =
                          (UnmatchedKey :> Copy(out, next_oid + 1)) @@ debug_data
                    /\ next_oid' = next_oid + 2
                    /\ pc' = "L56"
                    /\ UNCHANGED outcome
            ELSE /\ Raise("MissingCollaborator")
                 /\ UNCHANGED <<processing_pair, invoked, debug_data, next_oid>>
       ELSE /\ pc' = "L56"
            /\ UNCHANGED <<processing_pair, invoked, debug_data, next_oid, outcome>>
    /\ UNCHANGED <<aux, n_calls, config, entry, input>>

\* lines 56-57 and 65-66: the zero-instance check applied to a pair of type T
ZeroCheck(T, from, to) ==
    /\ pc = from
    /\ IF IsInstance(processing_pair, T)
       THEN LET out == _handle_zero_instances_cases(processing_pair, next_oid)
            IN  /\ processing_pair' = out
                /\ invoked' = Append(invoked,
                      Invocation("_handle_zero_instances_cases", processing_pair, NoKwargs, out))
                /\ next_oid' = IF out.oid = next_oid THEN next_oid + 1 ELSE next_oid
       ELSE UNCHANGED <<processing_pair, invoked, next_oid>>
    /\ pc' = to
    /\ UNCHANGED <<aux, n_calls, config, entry, input, debug_data, outcome>>

\* lines 56-57 left out
ZeroCheckUnmatchedSkipped ==
    /\ pc = "L56"
    /\ pc' = "L59"
    /\ UNCHANGED <<aux, n_calls, config, entry, input, processing_pair, debug_data, invoked, outcome, next_oid>>

\* lines 56-57
ZeroCheckUnmatched == ZeroCheck("UnmatchedInstancePair", "L56", "L59")

\* lines 59-62: second phase, instance matching
PhaseMatch ==
    /\ pc = "L59"
    /\ IF NeedsMatching(processing_pair)
       THEN IF MatcherPresent
            THEN \E out \in Pairs(next_oid) :
                    /\ processing_pair' = out
                    /\ invoked' = Append(invoked,
                          Invocation("match_instances", processing_pair, NoKwargs, out))
                    /\ debug_data' =
                          (MatchedKey :> Copy(out, next_oid + 1)) @@ debug_data
                    /\ next_oid' = next_oid + 2
                    /\ pc' = "L65"
                    /\ UNCHANGED outcome
            ELSE /\ Raise("MissingCollaborator")
                 /\ UNCHANGED <<processing_pair, invoked, debug_data, next_oid>>
       ELSE /\ pc' = "L65"
            /\ UNCHANGED <<processing_pair, invoked, debug_data, next_oid, outcome>>
    /\ UNCHANGED <<aux, n_calls, config, entry, input>>

\* lines 65-66 jumping over the evaluation phase
ZeroCheckMatchedSkipsEvaluate == ZeroCheck("MatchedInstancePair", "L65", "L71")

\* lines 65-66
ZeroCheckMatched == ZeroCheck("MatchedInstancePair", "L65", "L68")

\* lines 68-69: third phase, instance evaluation
PhaseEvaluate ==
    /\ pc = "L68"
    /\ IF IsInstance(processing_pair, "MatchedInstancePair")
       THEN LET out == evaluate_matched_instance(processing_pair, iou_threshold, next_oid)
            IN  /\ processing_pair' = out
                /\ invoked' = Append(invoked,
                      Invocation("evaluate_matched_instance", processing_pair,
                                 ("iou_threshold" :> iou_threshold), out))
                /\ next_oid' = next_oid + 1
       ELSE UNCHANGED <<processing_pair, invoked, next_oid>>
    /\ pc' = "L71"
    /\ UNCHANGED <<aux, n_calls, config, entry, input, debug_data, outcome>>

\* lines 71-74: return the result, or fail at the end of the pipeline
Finish ==
    /\ pc = "L71"
    /\ IF IsInstance(processing_pair, "PanopticaResult")
       THEN Return(processing_pair, debug_data)
       ELSE Raise("PipelineExhausted")
    /\ UNCHANGED <<aux, n_calls, config, entry, input, processing_pair, debug_data, invoked, next_oid>>

\* the caller has its answer; the evaluator is ready for another call
NextCall ==
    /\ pc = "done"
    /\ pc' = "idle"
    /\ entry' = "none"
    /\ input' = None
    /\ processing_pair' = None
    /\ debug_data' = <<>>
    /\ invoked' = <<>>
    /\ outcome' = NoOutcome
    /\ next_oid' = 1
    /\ UNCHANGED <<aux, n_calls, config>>

Next ==
    \/ CallEvaluate
    \/ CallPanopticEvaluate
    \/ AssertExpectedInput
    \/ PassThrough
    \/ PhaseApproximate
    \/ ZeroCheckUnmatched
    \/ PhaseMatch
    \/ ZeroCheckMatched
    \/ PhaseEvaluate
    \/ Finish
    \/ NextCall

Spec == Init /\ [][Next]_vars

\* lines 28-74 as one function: what a call gives back when it runs on its
\* own, from its entry point ent, its argument inp, the values aout and mout
\* that the approximator and the matcher return, and the first free object oid0
RunAlone(ent, inp, aout, mout, oid0) ==
    IF ent = "Panoptic_Evaluator.evaluate" /\ ~TypeMatches(inp, expected_input)
    THEN Raised("TypeMismatch")
    ELSE IF IsInstance(inp, "PanopticaResult")
    THEN Returned(inp, <<>>)
    ELSE IF IsInstance(inp, "SemanticPair") /\ ~ApproximatorPresent
    THEN Raised("MissingCollaborator")
    ELSE
    LET approximated == IsInstance(inp, "SemanticPair")
        p1 == IF approximated THEN aout ELSE inp
        d1 == IF approximated THEN (UnmatchedKey :> Copy(aout, oid0 + 1)) ELSE <<>>
        o1 == IF approximated THEN oid0 + 2 ELSE oid0
        p2 == IF IsInstance(p1, "UnmatchedInstancePair")
              THEN _handle_zero_instances_cases(p1, o1) ELSE p1
        o2 == IF p2.oid = o1 THEN o1 + 1 ELSE o1
    IN  IF NeedsMatching(p2) /\ ~MatcherPresent
        THEN Raised("MissingCollaborator")
        ELSE
        LET matched == NeedsMatching(p2)
            p3 == IF matched THEN mout ELSE p2
            d3 == IF matched THEN (MatchedKey :> Copy(mout, o2 + 1)) @@ d1 ELSE d1
            o3 == IF matched THEN o2 + 2 ELSE o2
            p4 == IF IsInstance(p3, "MatchedInstancePair")
                  THEN _handle_zero_instances_cases(p3, o3) ELSE p3
            o4 == IF p4.oid = o3 THEN o3 + 1 ELSE o3
            p5 == IF IsInstance(p4, "MatchedInstancePair")
                  THEN evaluate_matched_instance(p4, iou_threshold, o4) ELSE p4
        IN  IF IsInstance(p5, "PanopticaResult")
            THEN Returned(p5, d3)
            ELSE Raised("PipelineExhausted")

\* the statements of a call that has begun: evaluate is synchronous, so a call
\* that has begun runs on to its return or its exception
CallStep ==
    \/ AssertExpectedInput
    \/ PassThrough
    \/ PhaseApproximate
    \/ ZeroCheckUnmatched
    \/ PhaseMatch
    \/ ZeroCheckMatched
    \/ PhaseEvaluate
    \/ Finish

\* ---------------------------------------------------------------- the matcher
\* Instance Matching Algorithm, naive one-to-one policy: greedy by descending IoU

\* pairwise IoU of a reference and a prediction instance, in percent; 0 = no overlap
IoUValues == {0, 40, 60}

\* thresholds a matcher is run with, in percent
MatcherThresholds == {25 * i : i \in 1..NumThresholds}

RECURSIVE SumOver(_, _)
SumOver(f, S) ==
    IF S = {} THEN 0
    ELSE LET x == CHOOSE y \in S : TRUE IN f[x] + SumOver(f, S \ {x})

\* the IoU tables that masks can give: the instances of one mask are disjoint,
\* so the IoUs of one instance with the instances of the other mask sum to at most 1
OverlapTables(nref, npred) ==
    {t \in [(1..nref) \X (1..npred) -> IoUValues] :
        /\ \A r \in 1..nref : SumOver(t, {r} \X (1..npred)) <= 100
        /\ \A q \in 1..npred : SumOver(t, (1..nref) \X {q}) <= 100}

\* the arguments of a run of the matcher: the unmatched pair (both counts > 0),
\* the pairwise IoU of its masks and the threshold
MatcherArguments ==
    UNION {{[pair |-> UnmatchedInstancePair(rp[1], rp[2], 1), iou |-> t, iou_threshold |-> th] :
               t \in OverlapTables(rp[1], rp[2]), th \in MatcherThresholds} :
           rp \in (1..MaxInst) \X (1..MaxInst)}

\* the pairs that overlap at all
Candidates(nref, npred, t) == {c \in (1..nref) \X (1..npred) : t[c] > 0}

\* descending IoU, then ascending reference id, then ascending prediction id
Before(a, b, t) ==
    \/ t[a] > t[b]
    \/ t[a] = t[b] /\ a[1] < b[1]
    \/ t[a] = t[b] /\ a[1] = b[1] /\ a[2] < b[2]

RECURSIVE SortCandidates(_, _)
SortCandidates(S, t) ==
    IF S = {} THEN <<>>
    ELSE LET best == CHOOSE a \in S : \A b \in S \ {a} : Before(a, b, t)
         IN  <<best>> \o SortCandidates(S \ {best}, t)

\* a claim test that looks for the same pair instead of the same id
ClaimedSamePair(accepted, c) == \E i \in DOMAIN accepted : accepted[i] = c

\* the reference id or the prediction id of c is already in an accepted pair
Claimed(accepted, c) ==
    \E i \in DOMAIN accepted : accepted[i][1] = c[1] \/ accepted[i][2] = c[2]

\* the greedy pass over the sorted candidates
RECURSIVE Greedy(_, _, _, _)
Greedy(cands, t, th, accepted) ==
    IF cands = <<>> THEN accepted
    ELSE IF Claimed(accepted, Head(cands)) THEN Greedy(Tail(cands), t, th, accepted)
    ELSE IF t[Head(cands)] > th
         THEN Greedy(Tail(cands), t, th, Append(accepted, Head(cands)))
         ELSE Greedy(Tail(cands), t, th, accepted)

\* the unmatched reference ids taken as the ids that overlap nothing
UnmatchedReferenceIdsNoOverlap(nref, npred, t, accepted) ==
    {r \in 1..nref : \A q \in 1..npred : t[<<r, q>>] = 0}

\* the reference ids that no accepted pair claims
UnmatchedReferenceIds(nref, npred, t, accepted) ==
    (1..nref) \ {accepted[i][1] : i \in DOMAIN accepted}

\* the prediction ids that no accepted pair claims
UnmatchedPredictionIds(nref, npred, t, accepted) ==
    (1..npred) \ {accepted[i][2] : i \in DOMAIN accepted}

\* match_instances(unmatched_instance_pair, iou_threshold)
match_instances(arg, oid) ==
    LET nref == arg.pair.n_reference_instance
        npred == arg.pair.n_prediction_instance
        accepted == Greedy(SortCandidates(Candidates(nref, npred, arg.iou), arg.iou),
                           arg.iou, arg.iou_threshold, <<>>)
    IN  [pair |-> MatchedInstancePair(nref, npred, accepted, oid),
         unmatched_reference_ids |-> UnmatchedReferenceIds(nref, npred, arg.iou, accepted),
         unmatched_prediction_ids |-> UnmatchedPredictionIds(nref, npred, arg.iou, accepted)]

\* an evaluator that is not in a call, while another run is followed
EvaluatorIdle ==
    /\ pc = "idle"
    /\ entry = "none"
    /\ input = None
    /\ processing_pair = None
    /\ debug_data = <<>>
    /\ invoked = <<>>
    /\ outcome = NoOutcome
    /\ next_oid = 1
    /\ n_calls = 0

\* a matcher is given an unmatched pair
MatcherInit ==
    /\ EvaluatorIdle
    /\ expected_input = "UnmatchedInstancePair"
    /\ instance_approximator = None
    /\ instance_matcher = Matcher
    /\ iou_threshold = 50
    /\ calls = NoCalls
    /\ \E arg \in MatcherArguments : matching = [pc |-> "called", arg |-> arg]

\* the matcher returns the matched pair
MatchInstances ==
    /\ matching.pc = "called"
    /\ matching' = [pc |-> "returned", arg |-> matching.arg,
                    out |-> match_instances(matching.arg, 2)]
    /\ UNCHANGED <<config, pc, entry, input, processing_pair, debug_data, invoked,
                   outcome, next_oid, n_calls, calls>>

MatcherNext == MatchInstances

MatcherSpec == MatcherInit /\ [][MatcherNext]_vars

\* ---------------------------------------------------------------- two calls at once
\* Two calls on the evaluator are in progress together and their statements
\* are interleaved in every order.  Each call has its own argument and its
\* own locals (lines 37-45).

Calls == {1, 2}

\* objects set aside for one call, so that the objects of two calls differ
OidsPerCall == 8

FirstOid(c) == 1 + (c - 1) * OidsPerCall

\* the call that allocated an object
Owner(oid) == 1 + ((oid - 1) \div OidsPerCall)

\* instance counts of the pairs handed to the two calls
ConcCounts == 0..1

SmallCounts(x) ==
    CASE x.type = "SemanticPair" -> TRUE
      [] x.type = "PanopticaResult" ->
            x.num_ref_instances \in ConcCounts /\ x.num_pred_instances \in ConcCounts
      [] OTHER ->
            x.n_reference_instance \in ConcCounts /\ x.n_prediction_instance \in ConcCounts

ConcInputs(oid) == {x \in Inputs(oid) : SmallCounts(x)}
ConcUnmatched(oid) == {x \in UnmatchedPairs(oid) : SmallCounts(x)}
ConcMatched(oid) == {x \in MatchedPairs(oid) : SmallCounts(x)}

\* the parameters and locals of a call that has not begun
IdleCall ==
    [pc |-> "idle", entry |-> "none", input |-> None, processing_pair |-> None,
     debug_data |-> <<>>, invoked |-> <<>>, outcome |-> NoOutcome, next_oid |-> 0]

\* a call as it begins
BegunCall(ent, pp) ==
    [pc |-> IF ent = "Panoptic_Evaluator.evaluate" THEN "L28" ELSE "L45",
     entry |-> ent, input |-> pp, processing_pair |-> pp,
     debug_data |-> <<>>, invoked |-> <<>>, outcome |-> NoOutcome, next_oid |-> pp.oid + 1]

Failed(s, error) == [s EXCEPT !.pc = "done", !.outcome = Raised(error)]
Finished(s, result, debug) == [s EXCEPT !.pc = "done", !.outcome = Returned(result, debug)]

\* a collaborator call of the call s: its output out replaces processing_pair
\* and a copy of it is stored in debug_data
Collaborated(s, name, key, out, to) ==
    [s EXCEPT !.pc = to,
              !.processing_pair = out,
              !.invoked = Append(@, Invocation(name, s.processing_pair, NoKwargs, out)),
              !.debug_data = (key :> Copy(out, s.next_oid + 1)) @@ @,
              !.next_oid = @ + 2]

\* the zero-instance check of the call s
ZeroChecked(s, T, to) ==
    IF IsInstance(s.processing_pair, T)
    THEN LET out == _handle_zero_instances_cases(s.processing_pair, s.next_oid)
         IN  [s EXCEPT !.pc = to,
                       !.processing_pair = out,
                       !.invoked = Append(@, Invocation("_handle_zero_instances_cases",
                                                        s.processing_pair, NoKwargs, out)),
                       !.next_oid = IF out.oid = s.next_oid THEN @ + 1 ELSE @]
    ELSE [s EXCEPT !.pc = to]

\* the states the call s can be in after its next statement
CallSucc(s) ==
    CASE s.pc = "L28" ->
            {IF TypeMatches(s.processing_pair, expected_input)
             THEN [s EXCEPT !.pc = "L45"]
             ELSE Failed(s, "TypeMismatch")}
      [] s.pc = "L45" ->
            {IF IsInstance(s.processing_pair, "PanopticaResult")
             THEN Finished([s EXCEPT !.debug_data = <<>>], s.processing_pair, <<>>)
             ELSE [s EXCEPT !.pc = "L50", !.debug_data = <<>>]}
      [] s.pc = "L50" ->
            IF IsInstance(s.processing_pair, "SemanticPair")
            THEN IF ApproximatorPresent
                 THEN {Collaborated(s, "approximate_instances", UnmatchedKey, out, "L56") :
                          out \in ConcUnmatched(s.next_oid)}
                 ELSE {Failed(s, "MissingCollaborator")}
            ELSE {[s EXCEPT !.pc = "L56"]}
      [] s.pc = "L56" -> {ZeroChecked(s, "UnmatchedInstancePair", "L59")}
      [] s.pc = "L59" ->
            IF NeedsMatching(s.processing_pair)
            THEN IF MatcherPresent
                 THEN {Collaborated(s, "match_instances", MatchedKey, out, "L65") :
                          out \in ConcMatched(s.next_oid)}
                 ELSE {Failed(s, "MissingCollaborator")}
            ELSE {[s EXCEPT !.pc = "L65"]}
      [] s.pc = "L65" -> {ZeroChecked(s, "MatchedInstancePair", "L68")}
      [] s.pc = "L68" ->
            {IF IsInstance(s.processing_pair, "MatchedInstancePair")
             THEN LET out == evaluate_matched_instance(s.processing_pair, iou_threshold,
                                                       s.next_oid)
                  IN  [s EXCEPT !.pc = "L71",
                                !.processing_pair = out,
                                !.invoked = Append(@, Invocation("evaluate_matched_instance",
                                                s.processing_pair,
                                                ("iou_threshold" :> iou_threshold), out)),
                                !.next_oid = @ + 1]
             ELSE [s EXCEPT !.pc = "L71"]}
      [] s.pc = "L71" ->
            {IF IsInstance(s.processing_pair, "PanopticaResult")
             THEN Finished(s, s.processing_pair, s.debug_data)
             ELSE Failed(s, "PipelineExhausted")}
      [] OTHER -> {}

\* one debug_data dictionary that all calls write to
InterleaveSharedDebug(cs, c, t) ==
    [d \in Calls |-> IF d = c THEN t ELSE [cs[d] EXCEPT !.debug_data = t.debug_data]]

\* the call c goes to t; the parameters and locals of the other call are its own
Interleave(cs, c, t) == [cs EXCEPT ![c] = t]

\* the evaluator is constructed; two calls are about to be made
ConcInit ==
    /\ EvaluatorIdle
    /\ expected_input \in StageTypes
    /\ instance_approximator \in {None, Approximator}
    /\ instance_matcher \in {None, Matcher}
    /\ iou_threshold \in Thresholds
    /\ calls = [c \in Calls |-> IdleCall]
    /\ matching = NoMatching

ConcFrame ==
    UNCHANGED <<config, pc, entry, input, processing_pair, debug_data, invoked,
                outcome, next_oid, n_calls, matching>>

\* one of the two calls begins
ConcBegin ==
    /\ \E c \in Calls :
          /\ calls[c].pc = "idle"
          /\ \E ent \in {"Panoptic_Evaluator.evaluate", "panoptic_evaluate"},
                pp \in ConcInputs(FirstOid(c)) :
                calls' = Interleave(calls, c, BegunCall(ent, pp))
    /\ ConcFrame

\* one of the two calls executes its next statement
ConcStep ==
    /\ \E c \in Calls :
          \E t \in CallSucc(calls[c]) : calls' = Interleave(calls, c, t)
    /\ ConcFrame

ConcNext == ConcBegin \/ ConcStep

ConcSpec == ConcInit /\ [][ConcNext]_vars

\* ---------------------------------------------------------------- properties
HandlerName == "_handle_zero_instances_cases"
CollaboratorNames == {"approximate_instances", "match_instances", "evaluate_matched_instance"}

\* the collaborators the current call has invoked, in order
IsCollaboratorCall(v) == v.name \in CollaboratorNames
CollaboratorCalls == SelectSeq(invoked, IsCollaboratorCall)
CollaboratorSeq == [i \in DOMAIN CollaboratorCalls |-> CollaboratorCalls[i].name]

\* the indices of the zero-instance handler's invocations
HandlerCalls == {i \in DOMAIN invoked : invoked[i].name = HandlerName}

BothZero(pp) == pp.n_reference_instance = 0 /\ pp.n_prediction_instance = 0
BothPositive(pp) == pp.n_reference_instance > 0 /\ pp.n_prediction_instance > 0
ExactlyOneZero(pp) == ~BothZero(pp) /\ ~BothPositive(pp)

\* r is a result with the given counts, no true positive and empty metric lists
IsEmptyResult(r, num_ref, num_pred) ==
    /\ r.type = "PanopticaResult"
    /\ r.num_ref_instances = num_ref
    /\ r.num_pred_instances = num_pred
    /\ r.tp = 0
    /\ r.dice_list = <<>>
    /\ r.iou_list = <<>>

\* the call got past the type check of Panoptic_Evaluator.evaluate, or had none to pass
EnteredPipeline ==
    \/ entry = "panoptic_evaluate"
    \/ entry = "Panoptic_Evaluator.evaluate" /\ input.type = expected_input

\* C1: when exactly one of the two instance counts of a pair is zero, the
\* zero-instance handler returns a result that keeps the other side's count
\* (num_ref_instances and num_pred_instances equal the pair's counts, tp = 0,
\* empty dice_list and iou_list), and that result is what the call returns.
C1_OneSideZeroKeepsCount ==
    \A i \in HandlerCalls :
        ExactlyOneZero(invoked[i].arg) =>
            /\ IsEmptyResult(invoked[i].out, invoked[i].arg.n_reference_instance,
                                              invoked[i].arg.n_prediction_instance)
            /\ pc = "done" => outcome = Returned(invoked[i].out, debug_data)

\* C2: a pair whose two instance counts are both 0 short-circuits: the handler
\* returns the result (0, 0, tp = 0, [], []), nothing is invoked after it and the
\* call returns that result.
C2_BothZeroShortCircuits ==
    \A i \in HandlerCalls :
        BothZero(invoked[i].arg) =>
            /\ IsEmptyResult(invoked[i].out, 0, 0)
            /\ i = Len(invoked)
            /\ pc = "done" => outcome = Returned(invoked[i].out, debug_data)

C2_Witness ==
    /\ pc = "done"
    /\ outcome.kind = "return"
    /\ \E i \in HandlerCalls : BothZero(invoked[i].arg)

\* C3 as stated: a PanopticaResult given to either entry point comes back as
\* the same object with an empty debug map and nothing invoked.
C3_Original ==
    (pc = "done" /\ input.type = "PanopticaResult") =>
        /\ outcome = Returned(input, <<>>)
        /\ invoked = <<>>

\* C3 amended: a PanopticaResult given to panoptic_evaluate comes back as the
\* same object with an empty debug map and nothing invoked; given to
\* Panoptic_Evaluator.evaluate it does so only when PanopticaResult is the
\* evaluator's expected input type, and otherwise the call fails with
\* TypeMismatch, again with nothing invoked.
C3_PassThrough ==
    (pc = "done" /\ input.type = "PanopticaResult") =>
        /\ invoked = <<>>
        /\ IF entry = "panoptic_evaluate" \/ expected_input = "PanopticaResult"
           THEN outcome = Returned(input, <<>>)
           ELSE outcome = Raised("TypeMismatch")

C3_Witness ==
    /\ pc = "done"
    /\ entry = "panoptic_evaluate"
    /\ input.type = "PanopticaResult"
    /\ outcome.kind = "return"
    /\ outcome.result.oid = input.oid

\* C4: a call of Panoptic_Evaluator.evaluate whose argument is not exactly of
\* the expected input type fails with TypeMismatch; nothing has been invoked
\* and no debug map has been filled, at any point of the call.
C4_TypeMismatchFirst ==
    (entry = "Panoptic_Evaluator.evaluate" /\ input.type # expected_input) =>
        /\ invoked = <<>>
        /\ debug_data = <<>>
        /\ pc \in {"L28", "done"}
        /\ pc = "done" => outcome = Raised("TypeMismatch")

C4_Witness ==
    /\ pc = "done"
    /\ entry = "Panoptic_Evaluator.evaluate"
    /\ input.type \in PairTypes
    /\ expected_input \in PairTypes
    /\ input.type # expected_input
    /\ outcome = Raised("TypeMismatch")

\* C5 as stated: a SemanticPair without an approximator, and every
\* UnmatchedInstancePair without a matcher, ends in MissingCollaborator.
C5_Original ==
    (/\ pc = "done"
     /\ EnteredPipeline
     /\ \/ input.type = "SemanticPair" /\ instance_approximator = None
        \/ input.type = "UnmatchedInstancePair" /\ instance_matcher = None) =>
        outcome = Raised("MissingCollaborator")

\* C5 amended: a SemanticPair without an approximator, and every
\* UnmatchedInstancePair whose two instance counts are both > 0 without a
\* matcher, ends in MissingCollaborator (an UnmatchedInstancePair with a zero
\* count is short-circuited to a result before the matcher is asked for).
C5_MissingCollaborator ==
    (/\ pc = "done"
     /\ EnteredPipeline
     /\ \/ input.type = "SemanticPair" /\ instance_approximator = None
        \/ /\ input.type = "UnmatchedInstancePair"
           /\ BothPositive(input)
           /\ instance_matcher = None) =>
        outcome = Raised("MissingCollaborator")

C5_Witness ==
    /\ pc = "done"
    /\ input.type = "UnmatchedInstancePair"
    /\ BothPositive(input)
    /\ instance_matcher = None
    /\ outcome = Raised("MissingCollaborator")

\* C6 as stated: when a call ends in MissingCollaborator, no collaborator
\* (approximator, matcher, evaluator) has been invoked in that call.
C6_Original ==
    outcome = Raised("MissingCollaborator") => CollaboratorSeq = <<>>

\* C6 amended: a MissingCollaborator failure comes before the absent
\* collaborator's phase, not before all computation: when the approximator is
\* absent nothing has been invoked; when the matcher is absent the matcher and
\* the evaluator have not been invoked, but for a SemanticPair input the
\* approximator has already run (exactly once), and for an
\* UnmatchedInstancePair input no collaborator has.
C6_MissingCollaboratorLate ==
    outcome = Raised("MissingCollaborator") =>
        CollaboratorSeq =
            IF input.type = "SemanticPair" /\ instance_approximator # None
            THEN <<"approximate_instances">>
            ELSE <<>>

C6_Witness ==
    /\ outcome = Raised("MissingCollaborator")
    /\ input.type = "SemanticPair"
    /\ instance_approximator # None
    /\ instance_matcher = None
    /\ CollaboratorSeq = <<"approximate_instances">>

\* the in-order subsequences of (approximate, match, evaluate)
PhaseOrders ==
    {<<>>,
     <<"approximate_instances">>, <<"match_instances">>, <<"evaluate_matched_instance">>,
     <<"approximate_instances", "match_instances">>,
     <<"approximate_instances", "evaluate_matched_instance">>,
     <<"match_instances", "evaluate_matched_instance">>,
     <<"approximate_instances", "match_instances", "evaluate_matched_instance">>}

Invokes(name) == \E i \in DOMAIN invoked : invoked[i].name = name

\* C7: in any call the collaborators invoked form an in-order subsequence of
\* (approximate, match, evaluate), each at most once; only a SemanticPair input
\* invokes the approximator, a MatchedInstancePair input invokes neither the
\* approximator nor the matcher, and a PanopticaResult input invokes nothing.
C7_RemainingPhasesInOrder ==
    /\ CollaboratorSeq \in PhaseOrders
    /\ Invokes("approximate_instances") => input.type = "SemanticPair"
    /\ input.type = "MatchedInstancePair" =>
          ~Invokes("approximate_instances") /\ ~Invokes("match_instances")
    /\ input.type = "PanopticaResult" => invoked = <<>>

C7_Witness ==
    /\ pc = "done"
    /\ outcome.kind = "return"
    /\ CollaboratorSeq =
          <<"approximate_instances", "match_instances", "evaluate_matched_instance">>

\* the debug map of a returned call holds under key the output of callee, if
\* callee ran, and has no such key if it did not
DebugEntryIff(key, callee) ==
    /\ key \in DOMAIN outcome.debug_data <=> Invokes(callee)
    /\ \A i \in DOMAIN invoked :
          invoked[i].name = callee =>
              SameContent(outcome.debug_data[key], invoked[i].out)

\* C8: the debug map of a successful call has the key "UnmatchedInstanceMap"
\* iff the approximator ran, with the approximator's output as value, the key
\* "MatchedInstanceMap" iff the matcher ran, with the matcher's output as
\* value, and no other key; the call's input is not recorded.
C8_DebugMapExact ==
    outcome.kind = "return" =>
        /\ DOMAIN outcome.debug_data \subseteq {"UnmatchedInstanceMap", "MatchedInstanceMap"}
        /\ DebugEntryIff("UnmatchedInstanceMap", "approximate_instances")
        /\ DebugEntryIff("MatchedInstanceMap", "match_instances")

C8_Witness ==
    /\ outcome.kind = "return"
    /\ DOMAIN outcome.debug_data = {"UnmatchedInstanceMap", "MatchedInstanceMap"}
    /\ outcome.debug_data["UnmatchedInstanceMap"].type = "UnmatchedInstancePair"
    /\ outcome.debug_data["MatchedInstanceMap"].type = "MatchedInstancePair"

\* C9: every invocation of the matcher is given the configured iou_threshold,
\* the value that evaluate_matched_instance is given.
C9_MatcherGetsThreshold ==
    \A i \in DOMAIN invoked :
        invoked[i].name \in {"match_instances", "evaluate_matched_instance"} =>
            /\ "iou_threshold" \in DOMAIN invoked[i].kwargs
            /\ invoked[i].kwargs["iou_threshold"] = iou_threshold

\* the phase that follows the zero-instance check of a pair of this type
NextPhase(pp) ==
    IF pp.type = "UnmatchedInstancePair" THEN "match_instances"
    ELSE "evaluate_matched_instance"

\* C10: a pair whose two instance counts are both > 0 comes out of the
\* zero-instance handler as the very same object, and the call goes on with the
\* next phase on that pair (the matcher for an unmatched pair, unless none is
\* configured, the evaluator for a matched pair) instead of returning.
C10_BothPositivePassesThrough ==
    \A i \in HandlerCalls :
        BothPositive(invoked[i].arg) =>
            /\ invoked[i].out = invoked[i].arg
            /\ pc = "done" =>
                  \/ /\ i < Len(invoked)
                     /\ invoked[i + 1].name = NextPhase(invoked[i].arg)
                     /\ invoked[i + 1].arg = invoked[i].arg
                  \/ /\ invoked[i].arg.type = "UnmatchedInstancePair"
                     /\ instance_matcher = None
                     /\ outcome = Raised("MissingCollaborator")

C10_Witness ==
    /\ pc = "done"
    /\ outcome.kind = "return"
    /\ \E i \in HandlerCalls :
          /\ BothPositive(invoked[i].arg)
          /\ i < Len(invoked)
          /\ invoked[i + 1].name = "match_instances"
          /\ invoked[i + 1].arg = invoked[i].arg

\* the invariant of a PanopticaResult
WellFormedResult(r) ==
    /\ Len(r.dice_list) = r.tp
    /\ Len(r.iou_list) = r.tp
    /\ r.tp <= Min(r.num_ref_instances, r.num_pred_instances)

\* C11: every PanopticaResult made during a call, by a zero-instance
\* short-circuit or by the evaluator, and the one the call returns, has
\* len(dice_list) = len(iou_list) = tp and tp <= min(num_ref_instances,
\* num_pred_instances), so that fp and fn are not negative.
C11_ResultInvariant ==
    /\ \A i \in DOMAIN invoked :
          invoked[i].out.type = "PanopticaResult" => WellFormedResult(invoked[i].out)
    /\ (outcome.kind = "return" /\ input.type # "PanopticaResult") =>
          /\ WellFormedResult(outcome.result)
          /\ outcome.result.num_pred_instances - outcome.result.tp >= 0
          /\ outcome.result.num_ref_instances - outcome.result.tp >= 0

C11_Witness ==
    /\ outcome.kind = "return"
    /\ input.type = "SemanticPair"
    /\ outcome.result.tp > 0
    /\ outcome.result.tp < outcome.result.num_ref_instances

\* C14: whenever match_instances or evaluate_matched_instance is invoked, its
\* argument has n_reference_instance > 0 and n_prediction_instance > 0, also
\* when the argument is a MatchedInstancePair the caller supplied.
C14_NoDegenerateInput ==
    \A i \in DOMAIN invoked :
        invoked[i].name \in {"match_instances", "evaluate_matched_instance"} =>
            BothPositive(invoked[i].arg)

C14_Witness ==
    /\ pc = "done"
    /\ input.type = "MatchedInstancePair"
    /\ \E i \in DOMAIN invoked :
          /\ invoked[i].name = "evaluate_matched_instance"
          /\ invoked[i].arg = input

\* the matcher returned a matched pair with the counts of its argument
PreservesCounts(v) ==
    /\ v.out.type = "MatchedInstancePair"
    /\ v.out.n_reference_instance = v.arg.n_reference_instance
    /\ v.out.n_prediction_instance = v.arg.n_prediction_instance

MatcherCalls == {i \in DOMAIN invoked : invoked[i].name = "match_instances"}
ApproximatorCalls == {i \in DOMAIN invoked : invoked[i].name = "approximate_instances"}

\* the zero-instance check between matching and evaluation short-circuited
SecondCheckFired(i) ==
    /\ i \in HandlerCalls
    /\ invoked[i].arg.type = "MatchedInstancePair"
    /\ invoked[i].out.type = "PanopticaResult"

\* C17: in a call that went through a matcher that kept the two instance
\* counts of its argument, the zero-instance check between matching and
\* evaluation does not short-circuit; with collaborators that return the next
\* stage, it short-circuits only on a MatchedInstancePair that is the caller's
\* own input.
C17_SecondCheckOnlyForInput ==
    \A i \in DOMAIN invoked :
        SecondCheckFired(i) =>
            /\ \A j \in MatcherCalls : ~PreservesCounts(invoked[j])
            /\ (/\ \A j \in MatcherCalls : PreservesCounts(invoked[j])
                /\ \A j \in ApproximatorCalls :
                      invoked[j].out.type = "UnmatchedInstancePair") =>
                  invoked[i].arg = input

C17_Witness ==
    /\ pc = "done"
    /\ \E j \in MatcherCalls : PreservesCounts(invoked[j])
    /\ \E i \in HandlerCalls :
          /\ invoked[i].arg.type = "MatchedInstancePair"
          /\ invoked[i].out = invoked[i].arg

\* the collaborators the input's stage needs are configured
RequiredConfigured ==
    /\ input.type = "SemanticPair" =>
          instance_approximator # None /\ instance_matcher # None
    /\ input.type = "UnmatchedInstancePair" => instance_matcher # None

\* each collaborator invoked so far returned a value of the next stage's type
NextStageReturned ==
    /\ \A j \in ApproximatorCalls : invoked[j].out.type = "UnmatchedInstancePair"
    /\ \A j \in MatcherCalls : invoked[j].out.type = "MatchedInstancePair"

InCall == pc \notin {"idle", "done"}

\* how far through evaluate and panoptic_evaluate a position is
Position(l) ==
    CASE l = "idle" -> 0
      [] l = "L28" -> 1
      [] l = "L45" -> 2
      [] l = "L50" -> 3
      [] l = "L56" -> 4
      [] l = "L59" -> 5
      [] l = "L65" -> 6
      [] l = "L68" -> 7
      [] l = "L71" -> 8
      [] l = "done" -> 9

C15_EndsInResult ==
    /\ (pc = "done" /\ EnteredPipeline /\ RequiredConfigured /\ NextStageReturned) =>
          /\ outcome.kind = "return"
          /\ outcome.result.type = "PanopticaResult"
    /\ NextStageReturned => outcome # Raised("PipelineExhausted")

\* C15: a call on an input of one of the four stage types, with the
\* collaborators its stage needs configured and each collaborator returning
\* the next stage's type, comes to an end and ends in a PanopticaResult; the
\* failure at the end of the pipeline (PipelineExhausted) does not happen.
\* A call comes to an end because it can always take a step and every step
\* takes it strictly forward through its finitely many positions.
C15_TerminatesInResult ==
    /\ [](C15_EndsInResult)
    /\ [](InCall => ENABLED CallStep)
    /\ [][InCall => Position(pc') > Position(pc)]_vars

C15_Witness ==
    /\ pc = "done"
    /\ input.type = "SemanticPair"
    /\ RequiredConfigured
    /\ NextStageReturned
    /\ Len(invoked) = 5
    /\ outcome.kind = "return"

\* what the approximator and the matcher returned in the current call
OutputOf(callee) ==
    IF Invokes(callee)
    THEN invoked[CHOOSE i \in DOMAIN invoked : invoked[i].name = callee].out
    ELSE None

\* nothing of an earlier call is left when a call begins
FreshCall ==
    /\ entry = "none"
    /\ processing_pair = None
    /\ debug_data = <<>>
    /\ invoked = <<>>

\* C18: no step of evaluate changes the evaluator's expected input type,
\* approximator, matcher or iou_threshold, every call begins with nothing left
\* of the calls before it, and so the outcome of every call, the first or a
\* later one, is the one that the call's input, the configuration given at
\* construction and the collaborators' outputs determine.
C18_ConfigurationUnchanged ==
    /\ [][UNCHANGED config]_vars
    /\ [](pc = "idle" => FreshCall)
    /\ [](pc = "done" =>
            outcome = RunAlone(entry, input, OutputOf("approximate_instances"),
                               OutputOf("match_instances"), 2))

C18_Witness ==
    /\ pc = "done"
    /\ n_calls = MaxCalls
    /\ entry = "Panoptic_Evaluator.evaluate"
    /\ outcome.kind = "return"
    /\ DOMAIN outcome.debug_data = {"UnmatchedInstanceMap", "MatchedInstanceMap"}

\* no id is in two of the accepted pairs
OneToOne(accepted) ==
    \A i, j \in DOMAIN accepted :
        i # j => accepted[i][1] # accepted[j][1] /\ accepted[i][2] # accepted[j][2]

\* C12: the matched pair that the greedy descending-IoU matcher returns is
\* one-to-one: each reference id and each prediction id is in at most one
\* accepted pair, for every unmatched pair and threshold.
C12_MatchingOneToOne ==
    matching.pc = "returned" =>
        /\ OneToOne(matching.out.pair.matched_instances)
        /\ \A i \in DOMAIN matching.out.pair.matched_instances :
              matching.arg.iou[matching.out.pair.matched_instances[i]] > matching.arg.iou_threshold

\* a pair above the threshold was skipped because one of its ids was claimed
C12_Witness ==
    /\ matching.pc = "returned"
    /\ Len(matching.out.pair.matched_instances) >= 1
    /\ \E c \in DOMAIN matching.arg.iou :
          /\ matching.arg.iou[c] > matching.arg.iou_threshold
          /\ \A i \in DOMAIN matching.out.pair.matched_instances :
                matching.out.pair.matched_instances[i] # c

\* C13: in the matched pair that the matcher returns, tp + the number of
\* unmatched reference ids is n_reference_instance and tp + the number of
\* unmatched prediction ids is n_prediction_instance, tp being the number of
\* accepted pairs.
C13_CountConservation ==
    matching.pc = "returned" =>
        LET tp == Len(matching.out.pair.matched_instances)
        IN  /\ tp + Cardinality(matching.out.unmatched_reference_ids)
                  = matching.out.pair.n_reference_instance
            /\ tp + Cardinality(matching.out.unmatched_prediction_ids)
                  = matching.out.pair.n_prediction_instance

\* an instance that overlaps a prediction but stays below the threshold is unmatched
C13_Witness ==
    /\ matching.pc = "returned"
    /\ Len(matching.out.pair.matched_instances) >= 1
    /\ \E r \in matching.out.unmatched_reference_ids :
          \E q \in 1..matching.arg.pair.n_prediction_instance :
              matching.arg.iou[<<r, q>>] > 0

\* what a collaborator returned in the call s
OutputIn(s, callee) ==
    IF \E i \in DOMAIN s.invoked : s.invoked[i].name = callee
    THEN s.invoked[CHOOSE i \in DOMAIN s.invoked : s.invoked[i].name = callee].out
    ELSE None

\* C16: when two calls are interleaved statement by statement in any order,
\* each gives back the result and the debug map that it gives when it runs
\* alone, and no entry written by one call is ever in the debug map of the
\* other.
C16_CallsIndependent ==
    \A c \in DOMAIN calls :
        /\ calls[c].pc = "done" =>
              calls[c].outcome =
                  RunAlone(calls[c].entry, calls[c].input,
                           OutputIn(calls[c], "approximate_instances"),
                           OutputIn(calls[c], "match_instances"), FirstOid(c) + 1)
        /\ \A k \in DOMAIN calls[c].debug_data :
              Owner(calls[c].debug_data[k].oid) = c
        /\ (calls[c].pc \in {"idle", "L28", "L45", "L50"}) => calls[c].debug_data = <<>>

\* both calls are under way, each with its own entries
C16_Witness ==
    /\ DOMAIN calls = Calls
    /\ calls[1].pc = "L71"
    /\ calls[2].pc = "L65"
    /\ DOMAIN calls[1].debug_data = {"UnmatchedInstanceMap", "MatchedInstanceMap"}
    /\ DOMAIN calls[2].debug_data = {"UnmatchedInstanceMap", "MatchedInstanceMap"}
    /\ ~SameContent(calls[1].debug_data["MatchedInstanceMap"],
                    calls[2].debug_data["MatchedInstanceMap"])
====
